---------------------------- MODULE Spec2Model ----------------------------
(***************************************************************************)
(* Model of TheSoldMyEmail-DomainList: the merge engine and duplicate      *)
(* reporter of merge.py, and the domain extractor and export run of        *)
(* export_issues_domains.py.                                               *)
(*                                                                         *)
(* A text (a Python str) is a sequence of tokens.  A token is either one   *)
(* punctuation or whitespace character, or a word: a non-empty string of   *)
(* ASCII letters and digits.  Strip, lower, split, startswith and the two  *)
(* regular expressions are computed on these sequences the way the code    *)
(* computes them on characters; the word tokens are chosen so that no      *)
(* word is the concatenation of other words.                               *)
(***************************************************************************)
EXTENDS Integers, Sequences, FiniteSets, TLC

VARIABLES
    \* ---- merge.py main(): the two table files and the last run
    db,         \* the persistent table file (--db)
    src,        \* the export table file (--source)
    dbBefore,   \* db as it was when the last run of main() started
    lastRun,    \* how the last run of main() ended
    dbWrites,   \* number of write_csv_dict calls on db so far
    merges,     \* number of runs of main() so far
    \* ---- export_issues_domains.py extract_domain
    title, body, result, xpc,
    \* ---- merge.py report_duplicates
    rows, report, dpc,
    \* ---- export_issues_domains.py main()
    epc,          \* where the run is: start, fetch, done, aborted
    mode,         \* stdout (--stdout), output (--output), default
    latestExists, \* whether issues-latest.csv exists
    archives,     \* number of files rotate_latest_if_exists has archived
    outOpen,      \* whether the file opened for the output is open
    opens,        \* number of open() calls of the run
    repoIdx,      \* index into REPO_CONFIG of the repo being fetched
    page,         \* page of fetch_open_issues to request next
    outRows       \* the data rows written to out so far

mergeVars   == <<db, src, dbBefore, lastRun, dbWrites, merges>>
extractVars == <<title, body, result, xpc>>
dupVars     == <<rows, report, dpc>>
exportVars  == <<epc, mode, latestExists, archives, outOpen, opens, repoIdx,
                 page, outRows>>
vars == <<mergeVars, extractVars, dupVars, exportVars>>

-----------------------------------------------------------------------------
(* Strings as token sequences *)

Empty == <<>>

\* str.strip() with a set of characters; every member is a one-character token
RECURSIVE LStripSet(_, _)
LStripSet(s, chars) ==
    IF s # <<>> /\ Head(s) \in chars THEN LStripSet(Tail(s), chars) ELSE s

RECURSIVE RStripSet(_, _)
RStripSet(s, chars) ==
    IF s # <<>> /\ s[Len(s)] \in chars
    THEN RStripSet(SubSeq(s, 1, Len(s) - 1), chars) ELSE s

StripSet(s, chars) == RStripSet(LStripSet(s, chars), chars)

\* str.strip()
Strip(s) == StripSet(s, {" ", "\n", "\t"})

\* str.lower() of one token
LowerTok(t) ==
    CASE t = "GitHub" -> "github"
      [] t = "COM"    -> "com"
      [] t = "Domain" -> "domain"
      [] t = "HTTPS"  -> "https"
      [] t = "WWW"    -> "www"
      [] OTHER        -> t

\* str.lower()
Lower(s) == [i \in 1..Len(s) |-> LowerTok(s[i])]

\* the Python str a token sequence stands for
RECURSIVE Cat(_)
Cat(s) == IF s = <<>> THEN "" ELSE Head(s) \o Cat(Tail(s))

\* index of the first token of s in set c, 0 when there is none
FirstIn(s, c) ==
    IF \E i \in 1..Len(s) : s[i] \in c
    THEN CHOOSE i \in 1..Len(s) : s[i] \in c /\ \A j \in 1..(i - 1) : s[j] \notin c
    ELSE 0

\* index of the last token of s in set c, 0 when there is none
LastIn(s, c) ==
    IF \E i \in 1..Len(s) : s[i] \in c
    THEN CHOOSE i \in 1..Len(s) :
            s[i] \in c /\ \A j \in (i + 1)..Len(s) : s[j] \notin c
    ELSE 0

\* s.startswith(p)
StartsWith(s, p) == Len(s) >= Len(p) /\ SubSeq(s, 1, Len(p)) = p

\* s[n:]
Drop(s, n) == SubSeq(s, n + 1, Len(s))

SeqsUpTo(S, n) == UNION {[1..k -> S] : k \in 0..n}

Range(s) == {s[i] : i \in 1..Len(s)}


-----------------------------------------------------------------------------
(* merge.py: table files *)

KEY_FIELD == "issue_number"

\* total number of data rows of the two table files of a run
MaxRows == 3

\* "__NO_KEY__0": a cell value spelled like the first pseudo key of merge_rows
NoKey0 == <<"__NO_KEY__", "0">>

DbKeyVals  == {Empty, <<"5">>, <<" ", "5">>}
SrcKeyVals == {Empty, <<"5">>, <<"7">>}
DbVals     == {Empty, <<" ">>, <<"x", " ">>}
SrcVals    == {Empty, <<"y">>, <<"y", " ">>}

DbHeaders  == {<<"issue_number", "author">>, <<"author">>}
SrcHeaders == {<<"issue_number", "author">>, <<"issue_number", "domain">>,
               <<"domain">>}

\* a path with no file
NoFile == [exists |-> FALSE, fields |-> <<>>, rows |-> <<>>]

\* a file of zero bytes
ZeroFile == [exists |-> TRUE, fields |-> <<>>, rows |-> <<>>]

RowsOver(header, keyVals, vals) ==
    {r \in [Range(header) -> keyVals \cup vals] :
        \A f \in Range(header) :
            r[f] \in (IF f = KEY_FIELD THEN keyVals ELSE vals)}

\* the table files with a header of `headers` and exactly n data rows
TablesWith(headers, keyVals, vals, n) ==
    UNION {{[exists |-> TRUE, fields |-> h, rows |-> rs] :
              rs \in [1..n -> RowsOver(h, keyVals, vals)]} : h \in headers}

DbFilesWith(n, keyVals) ==
    TablesWith(DbHeaders, keyVals, DbVals, n)
        \cup (IF n = 0 THEN {NoFile, ZeroFile} ELSE {})

SrcFilesUpTo(n, keyVals) ==
    UNION {TablesWith(SrcHeaders, keyVals, SrcVals, k) : k \in 0..n}
        \cup {NoFile, ZeroFile}

\* row.get(fn) or ""
Get(row, fn) == IF fn \in DOMAIN row THEN row[fn] ELSE Empty

read_csv_dict(f) ==
    IF ~f.exists THEN [fields |-> <<>>, rows |-> <<>>]
    ELSE [fields |-> f.fields, rows |-> f.rows]

\* the file write_csv_dict leaves: every row gets a value for every field
write_csv_dict(fieldnames, rs) ==
    [exists |-> TRUE,
     fields |-> fieldnames,
     rows   |-> [i \in 1..Len(rs) |->
                   [fn \in Range(fieldnames) |-> Get(rs[i], fn)]]]

RECURSIVE AppendNew(_, _)
AppendNew(fieldnames, fs) ==
    IF fs = <<>> THEN fieldnames
    ELSE AppendNew(IF Head(fs) \in Range(fieldnames) THEN fieldnames
                   ELSE Append(fieldnames, Head(fs)),
                   Tail(fs))

build_fieldnames(db_fields, src_fields) ==
    AppendNew(AppendNew(<<>>, db_fields), src_fields)

\* f"__NO_KEY__{n}"
PseudoKey(n) == <<"__NO_KEY__", ToString(n)>>

\* merge_rows, first loop: index the db rows; st = [index, ordered]
RECURSIVE IndexDbRows(_, _, _)
IndexDbRows(db_rows, key_field, st) ==
    IF db_rows = <<>> THEN st
    ELSE LET row == Head(db_rows)
             key == Strip(Get(row, key_field))
             pseudo_key == PseudoKey(Len(st.ordered))
         IN  IndexDbRows(Tail(db_rows), key_field,
               IF key # Empty
               THEN IF key \in DOMAIN st.index THEN st
                    ELSE [index   |-> (key :> row) @@ st.index,
                          ordered |-> Append(st.ordered, key)]
               ELSE [index   |-> (pseudo_key :> row) @@ st.index,
                     ordered |-> Append(st.ordered, pseudo_key)])

\* merge_rows, inner loop: fill the empty fields of drow from srow
RECURSIVE FillRow(_, _, _)
FillRow(drow, srow, fns) ==
    IF fns = <<>> THEN drow
    ELSE LET fn   == Head(fns)
             sval == Strip(Get(srow, fn))
             dval == Strip(Get(drow, fn))
         IN  FillRow(IF sval # Empty /\ dval = Empty
                     THEN (fn :> sval) @@ drow
                     ELSE drow,
                     srow, Tail(fns))

\* merge_rows, second loop: insert or fill from the export rows
RECURSIVE MergeSrcRows(_, _, _, _)
MergeSrcRows(src_rows, key_field, src_fieldnames, st) ==
    IF src_rows = <<>> THEN st
    ELSE LET srow == Head(src_rows)
             skey == Strip(Get(srow, key_field))
         IN  MergeSrcRows(Tail(src_rows), key_field, src_fieldnames,
               IF skey = Empty THEN st
               ELSE IF skey \notin DOMAIN st.index
               THEN [index   |-> (skey :> srow) @@ st.index,
                     ordered |-> Append(st.ordered, skey)]
               ELSE [index   |-> (skey :> FillRow(st.index[skey], srow,
                                                  src_fieldnames))
                                 @@ st.index,
                     ordered |-> st.ordered])

merge_rows(db_rows, src_rows, key_field, src_fieldnames) ==
    LET st0 == IndexDbRows(db_rows, key_field,
                           [index |-> <<>>, ordered |-> <<>>])
        st  == MergeSrcRows(src_rows, key_field, src_fieldnames, st0)
    IN  [i \in 1..Len(st.ordered) |-> st.index[st.ordered[i]]]

\* main() without the check that the export has the key column
MergeMain_NoKeyCheck(dbf, srcf) ==
    LET s == read_csv_dict(srcf)
        d == read_csv_dict(dbf)
    IN  IF s.rows = <<>>
        THEN [db |-> dbf, ended |-> "no_data", wrote |-> FALSE]
        ELSE IF d.rows = <<>>
        THEN [db |-> write_csv_dict(s.fields, s.rows),
              ended |-> "created", wrote |-> TRUE]
        ELSE [db |-> write_csv_dict(
                        build_fieldnames(d.fields, s.fields),
                        merge_rows(d.rows, s.rows, KEY_FIELD, s.fields)),
              ended |-> "merged", wrote |-> TRUE]

\* main(): the db file it leaves, how it ended, whether it wrote db
MergeMain(dbf, srcf) ==
    LET s == read_csv_dict(srcf)
        d == read_csv_dict(dbf)
    IN  IF s.rows = <<>>
        THEN [db |-> dbf, ended |-> "no_data", wrote |-> FALSE]
        ELSE IF KEY_FIELD \notin Range(s.fields)
        THEN [db |-> dbf, ended |-> "no_key", wrote |-> FALSE]
        ELSE IF d.rows = <<>>
        THEN [db |-> write_csv_dict(s.fields, s.rows),
              ended |-> "created", wrote |-> TRUE]
        ELSE [db |-> write_csv_dict(
                        build_fieldnames(d.fields, s.fields),
                        merge_rows(d.rows, s.rows, KEY_FIELD, s.fields)),
              ended |-> "merged", wrote |-> TRUE]

\* number of runs of main() in one behaviour
MaxMerges == 2

MergeInit(dbKeys, srcKeys) ==
    /\ \E n \in 0..MaxRows :
          /\ db \in DbFilesWith(n, dbKeys)
          /\ src \in SrcFilesUpTo(MaxRows - n, srcKeys)
    /\ dbBefore = db
    /\ lastRun = "none"
    /\ dbWrites = 0
    /\ merges = 0

MergeIdle ==
    /\ db = NoFile /\ src = NoFile /\ dbBefore = NoFile
    /\ lastRun = "none" /\ dbWrites = 0 /\ merges = 0

\* one run of merge.py
Merge ==
    /\ merges < MaxMerges
    /\ LET m == MergeMain(db, src)
       IN  /\ db' = m.db
           /\ lastRun' = m.ended
           /\ dbWrites' = dbWrites + (IF m.wrote THEN 1 ELSE 0)
    /\ dbBefore' = db
    /\ merges' = merges + 1
    /\ UNCHANGED <<src, extractVars, dupVars, exportVars>>

-----------------------------------------------------------------------------
(* export_issues_domains.py: the domain extractor *)

SKIP_HOSTS == {"github.com", "www.github.com", "api.github.com"}

\* the one-character tokens; every other token is a word of [A-Za-z0-9]
Punct == {".", "/", ":", "@", " ", "\n", "\t", "(", ")", "[", "]", "{", "}",
          "<", ">", ",", ";", "?", "#", "+", "\"", "'"}

IsWord(t) == t \notin Punct

\* a word of letters only
IsAlpha(t) == IsWord(t) /\ t \notin {"80", "0", "5", "7", "98"}

\* normalize_host without the test for a dot
normalize_host_NoDot(host) ==
    LET h0 == Lower(Strip(host))
        at == FirstIn(h0, {"@"})
        h1 == IF at # 0 THEN Drop(h0, at) ELSE h0
        co == FirstIn(h1, {":"})
    IN  IF co # 0 THEN SubSeq(h1, 1, co - 1) ELSE h1

\* normalize_host(): "" unless the cleaned host contains a dot
normalize_host(host) ==
    LET h0 == Lower(Strip(host))
        at == FirstIn(h0, {"@"})
        h1 == IF at # 0 THEN Drop(h0, at) ELSE h0
        co == FirstIn(h1, {":"})
        h2 == IF co # 0 THEN SubSeq(h1, 1, co - 1) ELSE h1
    IN  IF h0 = Empty THEN Empty
        ELSE IF "." \notin Range(h2) THEN Empty
        ELSE h2

\* last index of the run of tokens outside `stop` that starts at i
RECURSIVE RunEnd(_, _, _)
RunEnd(s, i, stop) ==
    IF i < Len(s) /\ s[i + 1] \notin stop THEN RunEnd(s, i + 1, stop) ELSE i

\* last index of the word that starts at i
WordEnd(s, i) == RunEnd(s, i, Punct)

\* [a-z]{2,} on the word s[a..b]
AlphaTwo(s, a, b) ==
    /\ \A k \in a..b : IsAlpha(s[k])
    /\ (b > a \/ Len(s[a]) >= 2)

\* r'\b((?:[a-z0-9-]+\.)+[a-z]{2,})\b' tried at the word that starts at i:
\* the last index of the longest match, 0 when there is none
RECURSIVE ChainEnd(_, _, _)
ChainEnd(s, i, first) ==
    LET e    == WordEnd(s, i)
        more == IF e + 2 <= Len(s) /\ s[e + 1] = "." /\ IsWord(s[e + 2])
                THEN ChainEnd(s, e + 2, FALSE) ELSE 0
    IN  IF more # 0 THEN more
        ELSE IF ~first /\ AlphaTwo(s, i, e) THEN e
        ELSE 0

BareAt(s, i) ==
    /\ IsWord(s[i])
    /\ (i = 1 \/ ~IsWord(s[i - 1]))
    /\ ChainEnd(s, i, TRUE) # 0

\* re.search of the bare-domain pattern from index `from` on: <<first, last>>
\* of the leftmost match, <<0, 0>> when there is none
FindBare(s, from) ==
    IF \E i \in from..Len(s) : BareAt(s, i)
    THEN LET i == CHOOSE i \in from..Len(s) :
                     BareAt(s, i) /\ \A j \in from..(i - 1) : ~BareAt(s, j)
         IN  <<i, ChainEnd(s, i, TRUE)>>
    ELSE <<0, 0>>

\* re.findall of the bare-domain pattern
RECURSIVE BareAll(_, _)
BareAll(s, from) ==
    LET m == FindBare(s, from)
    IN  IF m[1] = 0 THEN <<>>
        ELSE <<SubSeq(s, m[1], m[2])>> \o BareAll(s, m[2] + 1)

\* the characters that end the host of r'https?://([^\s/)+]+)'
UrlStop == {" ", "\n", "\t", "/", ")", "+"}

UrlAt(s, p) ==
    /\ p + 4 <= Len(s)
    /\ LowerTok(s[p]) \in {"http", "https"}
    /\ s[p + 1] = ":" /\ s[p + 2] = "/" /\ s[p + 3] = "/"
    /\ s[p + 4] \notin UrlStop

\* re.search of the URL pattern from index `from` on: <<first, last>> of the
\* captured host of the leftmost match, <<0, 0>> when there is none
FindUrl(s, from) ==
    IF \E p \in from..Len(s) : UrlAt(s, p)
    THEN LET p == CHOOSE p \in from..Len(s) :
                     UrlAt(s, p) /\ \A q \in from..(p - 1) : ~UrlAt(s, q)
         IN  <<p + 4, RunEnd(s, p + 4, UrlStop)>>
    ELSE <<0, 0>>

\* re.findall of the URL pattern: the captured hosts
RECURSIVE UrlAll(_, _)
UrlAll(s, from) ==
    LET m == FindUrl(s, from)
    IN  IF m[1] = 0 THEN <<>>
        ELSE <<SubSeq(s, m[1], m[2])>> \o UrlAll(s, m[2] + 1)

\* str.splitlines()
RECURSIVE SplitLines(_)
SplitLines(s) ==
    LET nl == FirstIn(s, {"\n"})
    IN  IF s = <<>> THEN <<>>
        ELSE IF nl = 0 THEN <<s>>
        ELSE <<SubSeq(s, 1, nl - 1)>> \o SplitLines(Drop(s, nl))

\* "domain" in line.lower(): of the words used here only domain/Domain
\* contain it, and no two tokens join to spell it
HasDomainWord(line) == "domain" \in Range(Lower(line))

\* the test of a candidate host without the skip-set
Usable_NoSkip(host) == host # Empty

\* host and host not in SKIP_HOSTS
Usable(host) == host # Empty /\ Cat(host) \notin SKIP_HOSTS

\* the first usable normalized host of a list of candidates, else ""
RECURSIVE FirstUsable(_)
FirstUsable(cands) ==
    IF cands = <<>> THEN Empty
    ELSE LET host == normalize_host(Head(cands))
         IN  IF Usable(host) THEN host ELSE FirstUsable(Tail(cands))

\* extract_from_body, 1): what one line with "domain" returns, else ""
DomainLine(line) ==
    LET u  == FindUrl(line, 1)
        hu == IF u[1] = 0 THEN Empty
              ELSE normalize_host(SubSeq(line, u[1], u[2]))
        b  == FindBare(line, 1)
        hb == IF b[1] = 0 THEN Empty
              ELSE normalize_host(SubSeq(line, b[1], b[2]))
    IN  IF ~HasDomainWord(line) THEN Empty
        ELSE IF Usable(hu) THEN hu
        ELSE IF Usable(hb) THEN hb
        ELSE Empty

RECURSIVE DomainLines(_)
DomainLines(lines) ==
    IF lines = <<>> THEN Empty
    ELSE IF DomainLine(Head(lines)) # Empty THEN DomainLine(Head(lines))
    ELSE DomainLines(Tail(lines))

extract_from_body(b) ==
    LET text == Strip(b)
        t1   == DomainLines(SplitLines(text))
        t2   == FirstUsable(UrlAll(text, 1))
        t3   == FirstUsable(BareAll(text, 1))
    IN  IF text = Empty THEN Empty
        ELSE IF t1 # Empty THEN t1
        ELSE IF t2 # Empty THEN t2
        ELSE t3

\* str.split(): the maximal runs of non-whitespace tokens
RECURSIVE SplitWs(_)
SplitWs(s) ==
    LET t == LStripSet(s, {" ", "\n", "\t"})
        e == IF t = <<>> THEN 0 ELSE RunEnd(t, 1, {" ", "\n", "\t"})
    IN  IF t = <<>> THEN <<>>
        ELSE <<SubSeq(t, 1, e)>> \o SplitWs(Drop(t, e))

\* the characters of candidate.strip(" ,;()[]{}<>\"'")
TitleStrip == {" ", ",", ";", "(", ")", "[", "]", "{", "}", "<", ">", "\"", "'"}

\* urlparse(url).netloc or urlparse(url).path, for a url that starts with
\* http:// or https://
UrlHost(url) ==
    LET rest   == Drop(url, 4)
        cut    == FirstIn(rest, {"/", "?", "#"})
        netloc == IF cut = 0 THEN rest ELSE SubSeq(rest, 1, cut - 1)
        after  == IF cut = 0 THEN Empty ELSE Drop(rest, cut - 1)
        pcut   == FirstIn(after, {"?", "#"})
        path0  == IF pcut = 0 THEN after ELSE SubSeq(after, 1, pcut - 1)
        \* urlparse splits the parameters off the last path segment
        slash  == LastIn(path0, {"/"})
        semi   == FirstIn(Drop(path0, slash), {";"})
        path   == IF semi = 0 THEN path0
                  ELSE SubSeq(path0, 1, slash + semi - 1)
    IN  IF netloc # Empty THEN netloc ELSE path

HttpPrefix == <<"http", ":", "/", "/">>
HttpsPrefix == <<"https", ":", "/", "/">>

\* extract_from_title up to its last line: parsed.netloc or parsed.path
TitleHost(t) ==
    LET tokens == SplitWs(Strip(t))
        marked == {i \in 1..Len(tokens) :
                      "." \in Range(tokens[i]) \/ "/" \in Range(tokens[i])}
        cand0  == IF marked # {}
                  THEN tokens[CHOOSE i \in marked : \A j \in marked : i <= j]
                  ELSE tokens[1]
        cand   == StripSet(cand0, TitleStrip)
        url    == IF StartsWith(cand, HttpPrefix) \/ StartsWith(cand, HttpsPrefix)
                  THEN cand ELSE HttpPrefix \o cand
    IN  IF t = Empty \/ tokens = <<>> THEN Empty
        ELSE IF cand = Empty THEN Empty
        ELSE UrlHost(url)

extract_from_title(t) == normalize_host(TitleHost(t))

extract_domain(t, b) ==
    LET d  == extract_from_body(b)
        dt == extract_from_title(t)
    IN  IF d # Empty THEN [domain |-> d, source |-> "body"]
        ELSE IF dt # Empty THEN [domain |-> dt, source |-> "title"]
        ELSE [domain |-> Empty, source |-> "none"]

\* clickable_domain
clickable_domain(domain) ==
    LET d0 == Lower(Strip(domain))
        d1 == IF StartsWith(d0, <<"www", ".">>) THEN Drop(d0, 2) ELSE d0
    IN  IF d0 = Empty \/ d1 = Empty THEN Empty
        ELSE <<"www", ".">> \o d1

-----------------------------------------------------------------------------
(* merge.py: the duplicate reporter *)

IGNORE_DOMAIN_DUP_ISSUES == {<<"98">>}

normalize_domain_for_dup(domain) ==
    LET d0 == Lower(Strip(domain))
        d1 == IF StartsWith(d0, HttpPrefix) THEN Drop(d0, 4)
              ELSE IF StartsWith(d0, HttpsPrefix) THEN Drop(d0, 4)
              ELSE d0
        d2 == IF StartsWith(d1, <<"www", ".">>) THEN Drop(d1, 2) ELSE d1
    IN  IF domain = Empty THEN Empty ELSE d2

\* report_duplicates, 1): how often each non-empty issue_number occurs
RECURSIVE CountIssues(_, _)
CountIssues(rs, seen) ==
    IF rs = <<>> THEN seen
    ELSE LET num == Strip(Get(Head(rs), "issue_number"))
         IN  CountIssues(Tail(rs),
               IF num = Empty THEN seen
               ELSE IF num \in DOMAIN seen
               THEN (num :> seen[num] + 1) @@ seen
               ELSE (num :> 1) @@ seen)

\* report_duplicates, 2): domain_map, the issue numbers listed per group
RECURSIVE DomainMap(_, _, _)
DomainMap(rs, has_repo, domain_map) ==
    IF rs = <<>> THEN domain_map
    ELSE LET row  == Head(rs)
             num  == Strip(Get(row, "issue_number"))
             nd   == normalize_domain_for_dup(Get(row, "domain"))
             key  == IF has_repo THEN <<Strip(Get(row, "repo")), nd>> ELSE nd
             item == IF num # Empty THEN num ELSE <<"?">>
         IN  DomainMap(Tail(rs), has_repo,
               IF num \in IGNORE_DOMAIN_DUP_ISSUES \/ nd = Empty
               THEN domain_map
               ELSE IF key \in DOMAIN domain_map
               THEN (key :> Append(domain_map[key], item)) @@ domain_map
               ELSE (key :> <<item>>) @@ domain_map)

\* what report_duplicates prints: the issue numbers that occur more than
\* once with their counts, whether the domain check ran, and the groups
\* reported with the issue numbers listed for each
report_duplicates(rs) ==
    LET seen       == CountIssues(rs, <<>>)
        checked    == rs # <<>> /\ "domain" \in DOMAIN rs[1]
        has_repo   == \E i \in 1..Len(rs) : "repo" \in DOMAIN rs[i]
        domain_map == DomainMap(rs, has_repo, <<>>)
    IN  [dup_issue   |-> {<<num, seen[num]>> : num \in {n \in DOMAIN seen : seen[n] > 1}},
         checked     |-> checked,
         dup_domains |-> IF ~checked THEN {}
                         ELSE {[group  |-> k,
                                issues |-> Range(domain_map[k])] :
                                  k \in {g \in DOMAIN domain_map :
                                            Len(domain_map[g]) > 1}}]

\* number of rows handed to report_duplicates
MaxDupRows == 2

DupKeyVals == {Empty, <<"5">>, <<"7">>, <<"98">>}
DupDomainVals ==
    {Empty, <<"evil", ".", "org">>, <<"WWW", ".", "evil", ".", "org">>,
     <<"https", ":", "/", "/", "evil", ".", "org">>}
DupRepoVals == {<<"r1">>, <<"r2">>}

\* the rows main() can hand over: rows read from a table, or merged rows,
\* which do not all have the same fields
DupRows ==
    [{"issue_number"} -> DupKeyVals]
      \cup {r \in [{"issue_number", "domain"} -> DupKeyVals \cup DupDomainVals] :
               r["issue_number"] \in DupKeyVals /\ r["domain"] \in DupDomainVals}
      \cup {r \in [{"issue_number", "domain", "repo"} ->
                      DupKeyVals \cup DupDomainVals \cup DupRepoVals] :
               /\ r["issue_number"] \in DupKeyVals
               /\ r["domain"] \in DupDomainVals
               /\ r["repo"] \in DupRepoVals}

DupInit ==
    /\ rows \in SeqsUpTo(DupRows, MaxDupRows)
    /\ report = [dup_issue |-> {}, checked |-> FALSE, dup_domains |-> {}]
    /\ dpc = "start"

\* report_duplicates(rows)
Report ==
    /\ dpc = "start"
    /\ report' = report_duplicates(rows)
    /\ dpc' = "done"
    /\ UNCHANGED <<rows, mergeVars, extractVars, exportVars>>

-----------------------------------------------------------------------------
(* export_issues_domains.py: the export run *)

REPO_CONFIG ==
    <<[repo |-> "svemailproject/TheySoldMyEmail", offset |-> 0],
      [repo |-> "Bob-Nixkoenner/TheySoldMyEmail", offset |-> 2000]>>

\* pages the tracker serves per repo, and issues per served page
MaxPages == 2
MaxPageIssues == 1

\* the records a page can hold: a number (0 stands for no "number"), the
\* pull_request key, a title and a body
PageIssues ==
    [number : 0..2,
     pull_request : BOOLEAN,
     title : {<<"evil", ".", "org", " ", "leak">>},
     body : {Empty, <<"https", ":", "/", "/", "github", ".", "com">>}]

\* the row main() writes for one issue of REPO_CONFIG[r], given the
\* result ex of extract_domain for it
ExportRow(r, issue, ex) ==
    [issue_number    |-> REPO_CONFIG[r].offset + issue.number,
     domain          |-> Cat(clickable_domain(ex.domain)),
     domain_source   |-> ex.source,
     repo            |-> REPO_CONFIG[r].repo,
     gh_issue_number |-> issue.number]

\* title = (issue.get("title") or "").strip()
StrippedTitles(issues) ==
    [k \in 1..Len(issues) |-> [issues[k] EXCEPT !.title = Strip(@)]]

\* the rows written for the issues of one page: pull requests are dropped
\* by fetch_open_issues, issues without a number by main()
PageRows(r, issues) ==
    LET kept == SelectSeq(StrippedTitles(issues),
                          LAMBDA i : ~i.pull_request /\ i.number # 0)
    IN  [k \in 1..Len(kept) |->
           ExportRow(r, kept[k], extract_domain(kept[k].title, kept[k].body))]

ExportInit ==
    /\ epc = "start"
    /\ mode \in {"stdout", "output", "default"}
    /\ latestExists \in BOOLEAN
    /\ archives = 0 /\ outOpen = FALSE /\ opens = 0
    /\ repoIdx = 0 /\ page = 0 /\ outRows = <<>>

\* main() up to the header row: choose the destination, rotate, open
ExportStart ==
    /\ epc = "start"
    /\ IF mode = "stdout"
       THEN UNCHANGED <<latestExists, archives, outOpen, opens>>
       ELSE /\ outOpen' = TRUE
            /\ opens' = opens + 1
            /\ IF mode = "default"
               THEN /\ archives' = archives + (IF latestExists THEN 1 ELSE 0)
                    /\ latestExists' = TRUE
               ELSE UNCHANGED <<latestExists, archives>>
    /\ epc' = "fetch" /\ repoIdx' = 1 /\ page' = 1
    /\ UNCHANGED <<mode, outRows, mergeVars, extractVars, dupVars>>

\* one page request succeeds: its issues are written; after the last page
\* of the last repo main() closes the file it opened and ends
FetchPage ==
    /\ epc = "fetch"
    /\ \E issues \in SeqsUpTo(PageIssues, MaxPageIssues), next \in BOOLEAN :
          LET more == issues # <<>> /\ next /\ page < MaxPages
              last == ~more /\ repoIdx = Len(REPO_CONFIG)
          IN  /\ outRows' = outRows \o PageRows(repoIdx, issues)
              /\ page' = IF more THEN page + 1 ELSE 1
              /\ repoIdx' = IF more \/ last THEN repoIdx ELSE repoIdx + 1
              /\ epc' = IF last THEN "done" ELSE "fetch"
              /\ outOpen' = IF last /\ mode # "stdout" THEN FALSE ELSE outOpen
    /\ UNCHANGED <<mode, latestExists, archives, opens, mergeVars,
                   extractVars, dupVars>>

\* one page request fails: requests.get times out or raise_for_status
\* raises, and the exception leaves main()
FetchFail ==
    /\ epc = "fetch"
    /\ epc' = "aborted"
    /\ UNCHANGED <<mode, latestExists, archives, outOpen, opens, repoIdx,
                   page, outRows, mergeVars, extractVars, dupVars>>

-----------------------------------------------------------------------------
(* The parts of the state a specification does not use stay at these values *)

ExtractIdle ==
    /\ title = Empty /\ body = Empty
    /\ result = [domain |-> Empty, source |-> "none"]
    /\ xpc = "idle"

DupIdle ==
    /\ rows = <<>>
    /\ report = [dup_issue |-> {}, checked |-> FALSE, dup_domains |-> {}]
    /\ dpc = "idle"

ExportIdle ==
    /\ epc = "idle" /\ mode = "stdout" /\ latestExists = FALSE
    /\ archives = 0 /\ outOpen = FALSE /\ opens = 0 /\ repoIdx = 0
    /\ page = 0 /\ outRows = <<>>

-----------------------------------------------------------------------------
(* Specification of the extractor: extract_domain applied to titles and
   bodies put together from a few pieces of text *)

\* number of pieces of a generated body, and of a generated title
MaxBodyPieces == 3
MaxTitlePieces == 3

BodyPieces ==
    {<<"https", ":", "/", "/">>, <<"github", ".", "com">>,
     <<"GitHub", ".", "COM">>, <<"evil", ".", "org">>, <<"api", ".">>,
     <<"u", "@">>, <<":", "80">>, <<"/", "org">>, <<" ">>, <<"\n">>,
     <<"Domain", ":", " ">>}

TitlePieces ==
    {<<"https", ":", "/", "/">>, <<"github", ".", "com">>,
     <<"GitHub", ".", "COM">>, <<"localhost">>, <<"leak">>, <<"/">>,
     <<" ">>, <<"(">>, <<":", "80">>, <<"u", "@">>}

RECURSIVE Flatten(_)
Flatten(ps) == IF ps = <<>> THEN <<>> ELSE Head(ps) \o Flatten(Tail(ps))

TextsOf(pieces, n) == {Flatten(ps) : ps \in SeqsUpTo(pieces, n)}

\* https://github.com/org/repo
SkipOnlyBody ==
    <<"https", ":", "/", "/", "github", ".", "com", "/", "org", "/", "repo">>

\* the titles tried with every generated body
FewTitles == {Empty, <<"localhost", " ", "leak">>}

\* the bodies tried with every generated title
FewBodies == {Empty, SkipOnlyBody}

ExtractInit ==
    /\ \/ /\ body \in TextsOf(BodyPieces, MaxBodyPieces) \cup {SkipOnlyBody}
          /\ title \in FewTitles
       \/ /\ body \in FewBodies
          /\ title \in TextsOf(TitlePieces, MaxTitlePieces)
    /\ result = [domain |-> Empty, source |-> "none"]
    /\ xpc = "start"

\* raw_domain, source = extract_domain(title, body)
Extract ==
    /\ xpc = "start"
    /\ result' = extract_domain(title, body)
    /\ xpc' = "done"
    /\ UNCHANGED <<title, body, mergeVars, dupVars, exportVars>>

InitExtract == ExtractInit /\ MergeIdle /\ DupIdle /\ ExportIdle

NextExtract == Extract

SpecExtract == InitExtract /\ [][NextExtract]_vars

-----------------------------------------------------------------------------
(* Claims about the extractor *)

\* the hosts the two patterns find in a body
BodyHosts(b) ==
    Range(UrlAll(Strip(b), 1)) \cup Range(BareAll(Strip(b), 1))

\* lowercased, without userinfo and port, the host is in the skip-set
IsSkipHost(h) ==
    LET l  == Lower(h)
        at == FirstIn(l, {"@"})
        a  == IF at = 0 THEN l ELSE Drop(l, at)
        co == FirstIn(a, {":"})
        c  == IF co = 0 THEN a ELSE SubSeq(a, 1, co - 1)
    IN  Cat(c) \in SKIP_HOSTS

HasNoDot(h) == "." \notin Range(h)

\* every host in the body is a skip-set host (or has no dot), and one is
OnlySkipHosts(b) ==
    /\ \E h \in BodyHosts(b) : IsSkipHost(h)
    /\ \A h \in BodyHosts(b) : IsSkipHost(h) \/ HasNoDot(h)

\* C6: a skip-set host is never returned with source body; a body whose
\* only hosts are skip-set hosts yields nothing, and with an empty title
\* the result is the empty domain with source none.
C6_SkipSet ==
    (xpc = "done") =>
        /\ result.source = "body" =>
              /\ result.domain # Empty
              /\ Cat(result.domain) \notin SKIP_HOSTS
        /\ OnlySkipHosts(body) =>
              /\ result.source # "body"
              /\ title = Empty =>
                    result = [domain |-> Empty, source |-> "none"]

\* C6's case: the body https://github.com/org/repo with an empty title
C6_Witness ==
    /\ xpc = "done" /\ body = SkipOnlyBody /\ title = Empty
    /\ OnlySkipHosts(body)
    /\ result = [domain |-> Empty, source |-> "none"]

\* the body yields no domain and the title's token parses to a host
\* without a dot
TitleHostNoDot ==
    /\ extract_from_body(body) = Empty
    /\ TitleHost(title) # Empty
    /\ HasNoDot(TitleHost(title))

\* C8 as stated: a title host without a dot is returned, lowercased, with
\* source title.
C8_TitleNoDotReturned ==
    (xpc = "done" /\ TitleHostNoDot) =>
        result = [domain |-> Lower(TitleHost(title)), source |-> "title"]

\* C8 as amended: the title path does require a dot, so a title host
\* without a dot gives the empty domain with source none, and a domain
\* with source title always has a dot; the skip-set is not applied, so a
\* title host that is a skip-set host is returned with source title.
C8_TitleDotRequired ==
    (xpc = "done" /\ extract_from_body(body) = Empty) =>
        /\ result.source = "title" => ~HasNoDot(result.domain)
        /\ HasNoDot(TitleHost(title)) =>
              result = [domain |-> Empty, source |-> "none"]
        /\ Cat(Lower(TitleHost(title))) \in SKIP_HOSTS =>
              result = [domain |-> Lower(TitleHost(title)), source |-> "title"]

\* C8's case: a title whose host has no dot, and no domain from the body
C8_Witness ==
    /\ xpc = "done" /\ TitleHostNoDot
    /\ result = [domain |-> Empty, source |-> "none"]

\* C8's other case: a skip-set host in the title comes back with source title
C8_SkipWitness ==
    /\ xpc = "done"
    /\ Cat(Lower(TitleHost(title))) \in SKIP_HOSTS
    /\ result.source = "title"

-----------------------------------------------------------------------------
(* Specification of the duplicate reporter, and the claim about it *)

InitDup == DupInit /\ MergeIdle /\ ExtractIdle /\ ExportIdle

NextDup == Report

SpecDup == InitDup /\ [][NextDup]_vars

\* the rows the domain check looks at: not ignored, with a domain
Considered ==
    {i \in 1..Len(rows) :
        /\ Strip(Get(rows[i], "issue_number")) \notin IGNORE_DOMAIN_DUP_ISSUES
        /\ normalize_domain_for_dup(Get(rows[i], "domain")) # Empty}

HasRepoField == \E i \in 1..Len(rows) : "repo" \in DOMAIN rows[i]

GroupOf(row) ==
    IF HasRepoField
    THEN <<Strip(Get(row, "repo")), normalize_domain_for_dup(Get(row, "domain"))>>
    ELSE normalize_domain_for_dup(Get(row, "domain"))

\* the distinct issue numbers of the considered rows of group g
DistinctKeys(g) ==
    {Strip(Get(rows[i], "issue_number")) :
        i \in {j \in Considered : GroupOf(rows[j]) = g}} \ {Empty}

\* C9: with a domain field in the rows, a group of rows (by repo and
\* normalized domain, or by normalized domain alone) is reported if and
\* only if it holds more than one distinct issue number.
C9_ReportedIffDistinctKeys ==
    (dpc = "done" /\ rows # <<>>
        /\ \A i \in 1..Len(rows) : "domain" \in DOMAIN rows[i]) =>
        /\ report.checked
        /\ \A g \in {GroupOf(rows[i]) : i \in Considered} :
              (g \in {d.group : d \in report.dup_domains})
                 <=> Cardinality(DistinctKeys(g)) > 1

-----------------------------------------------------------------------------
(* Specification of the export run, and the claim about it *)

InitExport == ExportInit /\ MergeIdle /\ ExtractIdle /\ DupIdle

NextExport == ExportStart \/ FetchPage \/ FetchFail

SpecExport == InitExport /\ [][NextExport]_vars

\* C7: the output file is opened once and is closed on every exit path:
\* when the run has ended, by finishing or by a failed page fetch, the
\* file it opened is closed.
C7_ClosedOnEveryExit ==
    (epc \in {"done", "aborted"}) => (opens <= 1 /\ ~outOpen)

-----------------------------------------------------------------------------
(* Specifications of the merge runs *)

\* tables whose keys are empty or issue numbers
InitMerge ==
    MergeInit(DbKeyVals, SrcKeyVals) /\ ExtractIdle /\ DupIdle /\ ExportIdle

NextMerge == Merge

SpecMerge == InitMerge /\ [][NextMerge]_vars

\* tables in which a key cell may also hold the text __NO_KEY__0
InitMergeAnyKey ==
    /\ MergeInit(DbKeyVals \cup {NoKey0}, SrcKeyVals \cup {NoKey0})
    /\ ExtractIdle /\ DupIdle /\ ExportIdle

SpecMergeAnyKey == InitMergeAnyKey /\ [][NextMerge]_vars

-----------------------------------------------------------------------------
(* Claims about the merge runs *)

\* (row.get("issue_number") or "").strip()
TrimKey(row) == Strip(Get(row, KEY_FIELD))

\* the non-empty trimmed keys of a row sequence
KeysOf(rs) == {TrimKey(rs[i]) : i \in 1..Len(rs)} \ {Empty}

\* the first row of rs with trimmed key k
FirstWithKey(rs, k) ==
    rs[CHOOSE i \in 1..Len(rs) :
          /\ TrimKey(rs[i]) = k
          /\ \A j \in 1..(i - 1) : TrimKey(rs[j]) # k]

RowsWithKey(rs, k) == {i \in 1..Len(rs) : TrimKey(rs[i]) = k}

\* the last run read a usable export and wrote the persistent table
Wrote == lastRun \in {"created", "merged"}

\* the export table is missing, has no data rows, or lacks issue_number
BadSource ==
    \/ ~src.exists
    \/ src.rows = <<>>
    \/ KEY_FIELD \notin Range(src.fields)

\* C1: running merge a second time with the same export leaves the
\* persistent table (fields, row sequence, every value) as the first run
\* left it.
C1_Idempotent == (merges = 2 /\ Wrote) => db = dbBefore

\* C2: after a merge, for every key of the persistent table that also
\* occurs in the export, the row with that key still holds, unchanged,
\* every value that was non-empty in the (first) persistent row with that
\* key before the merge.
C2_NoOverwrite ==
    (lastRun = "merged") =>
        \A k \in KeysOf(dbBefore.rows) \cap KeysOf(src.rows) :
            LET r == FirstWithKey(dbBefore.rows, k)
            IN  \A f \in DOMAIN r :
                    Strip(r[f]) # Empty =>
                        /\ RowsWithKey(db.rows, k) # {}
                        /\ \A i \in RowsWithKey(db.rows, k) :
                              db.rows[i][f] = r[f]

\* the fields of s that are not in t, in the order of s
FieldsNotIn(s, t) == SelectSeq(s, LAMBDA f : f \notin Range(t))

\* C3: after a merge that wrote, the persistent table's fields are its
\* fields before the merge, in their order, followed by the export-only
\* fields in export order.
C3_FieldGrowth ==
    Wrote => db.fields = dbBefore.fields \o FieldsNotIn(src.fields, dbBefore.fields)

\* C4: every non-empty export key that was absent from the persistent
\* table before the merge is the key of exactly one row after it.
C4_InsertedOnce ==
    Wrote =>
        \A k \in KeysOf(src.rows) \ KeysOf(dbBefore.rows) :
            Cardinality(RowsWithKey(db.rows, k)) = 1

\* C5: with a missing export, an export without data rows or an export
\* without the issue_number field, a run ends without writing: the
\* persistent table file is as before, and is not created.
C5_BadSourceNoWrite ==
    (merges >= 1 /\ BadSource) =>
        /\ lastRun \in {"no_data", "no_key"}
        /\ db = dbBefore
        /\ dbWrites = 0

\* C5's case: a run on an export with rows but no issue_number field, next
\* to a persistent table that has rows
C5_Witness ==
    /\ merges >= 1 /\ lastRun = "no_key"
    /\ src.rows # <<>> /\ db.rows # <<>>

\* the rows of rs that are keyless or the first with their trimmed key
RECURSIVE KeptRows(_, _)
KeptRows(rs, seen) ==
    IF rs = <<>> THEN <<>>
    ELSE LET k == TrimKey(Head(rs))
         IN  IF k # Empty /\ k \in seen THEN KeptRows(Tail(rs), seen)
             ELSE <<Head(rs)>> \o KeptRows(Tail(rs), seen \cup {k})

\* the non-empty trimmed keys of rs outside seen, in order of first appearance
RECURSIVE NewKeys(_, _)
NewKeys(rs, seen) ==
    IF rs = <<>> THEN <<>>
    ELSE LET k == TrimKey(Head(rs))
         IN  IF k = Empty \/ k \in seen THEN NewKeys(Tail(rs), seen)
             ELSE <<k>> \o NewKeys(Tail(rs), seen \cup {k})

\* C10: after a merge into a persistent table with rows, the rows are the
\* kept persistent rows (keyless, or first with their key) in their order,
\* a keyless one unchanged, followed by one row per new export key in order
\* of first appearance.
C10_RowOrder ==
    (lastRun = "merged") =>
        LET kept == KeptRows(dbBefore.rows, {})
            new  == NewKeys(src.rows, KeysOf(dbBefore.rows))
        IN  /\ Len(db.rows) = Len(kept) + Len(new)
            /\ \A j \in 1..Len(kept) :
                 j <= Len(db.rows) =>
                    /\ TrimKey(db.rows[j]) = TrimKey(kept[j])
                    /\ TrimKey(kept[j]) = Empty =>
                          \A f \in DOMAIN kept[j] : db.rows[j][f] = kept[j][f]
            /\ \A j \in 1..Len(new) :
                 Len(kept) + j <= Len(db.rows) =>
                    TrimKey(db.rows[Len(kept) + j]) = new[j]

=============================================================================
